---- MODULE Spec2Model ----
(***************************************************************************)
(* club-stats (src/main.py): the paginated activity fetch (load_items),    *)
(* the per-day aggregation (plot_items), the inactivity report             *)
(* (write_inactivity_report) and their orchestration (main).               *)
(***************************************************************************)
EXTENDS Integers, Sequences, FiniteSets, TLC

(* ------------------------------ bounds -------------------------------- *)
MaxDate == 2          \* calendar dates are 1..MaxDate
MaxNumDays == 1       \* --num_days ranges over -1..MaxNumDays
MaxPageLen == 2       \* records per served page
MaxRequests == 3      \* page requests explored by Spec
MaxStream == 3        \* records served in all, explored by Spec
MaxKept == 2          \* records the process can hold before memory runs out
MaxPlotDate == 3      \* dates of the records handed to plot_items alone
MaxItems == 3         \* records handed to plot_items or the report alone
MaxMembers == 2       \* roster entries

(* ------------------------- program constants -------------------------- *)
WEEKLY_XP == 1000
FILTER_OUT_WEEKLIES == TRUE

(* ------------------------------- data --------------------------------- *)
Dates == 1..MaxDate
NumDays == (-1)..MaxNumDays

\* recordedAt is an ISO timestamp "<date>T<time>": the pair <<date, time>>.
Rec(d, t, x, u) == [recordedAt |-> <<d, t>>, xpReward |-> x, userId |-> u]

\* recordedAt.split('T')[0]
SplitDate(recordedAt) == recordedAt[1]

SeqsUpTo(S, n) == UNION {[1..k -> S] : k \in 0..n}

\* Values of data['paginationToken']: None, the empty string, a cursor.
None == "<None>"
Tokens == {None, "", "t1"}
\* What a request URL carries: no paginationToken parameter, or a token.
NoToken == "<no parameter>"
\* No response yet (history), and a key the JSON body lacks.
First == "<first request>"
Missing == "<missing key>"

\* Python truthiness of the token (line 65).
Truthy(tok) == tok # None /\ tok # ""

\* The records the remote source serves.
FetchRecords == {Rec(d, 0, x, "A") : d \in Dates, x \in {100, WEEKLY_XP}}

\* The JSON bodies the remote source may answer with a page p of records:
\* 'items' and 'paginationToken' may each be absent.
ResponsesWith(p) ==
    {[hasItems |-> TRUE, items |-> p, hasToken |-> TRUE, paginationToken |-> t] :
        t \in Tokens}
    \cup {[hasItems |-> TRUE, items |-> p, hasToken |-> FALSE, paginationToken |-> Missing]}
    \cup {[hasItems |-> FALSE, items |-> <<>>, hasToken |-> h,
           paginationToken |-> IF h THEN "t1" ELSE Missing] : h \in BOOLEAN}

Min(a, b) == IF a <= b THEN a ELSE b

VARIABLES
    pc,               \* position of the run
    err,              \* the exception that ended the run, "none" otherwise
    num_days,         \* args.num_days
    days_set,         \* load_items: days_set
    all_activities,   \* load_items: all_activities
    pagination_token, \* load_items: pagination_token
    activities,       \* load_items: the page being processed
    idx,              \* load_items: position of the for loop in activities
    items,            \* main: items (the list load_items returned)
    include_today_in_avg,  \* args.include_today_in_avg
    include_member_stats,  \* args.include_member_stats
    members,          \* main: members (the list load_members returned)
    chart,            \* xp_per_day.png: whether saved, and what it shows
    report,           \* inactive_members.txt: whether written, and its blocks
    \* history
    stream,           \* every record served so far, in response order
    nreq,             \* number of page requests issued
    lastReq,          \* token carried by the most recent request
    lastData,         \* the most recent response, its records left out
    requested,        \* what every request issued so far carried
    malformed         \* some response lacked 'items' or 'paginationToken'

vars == <<pc, err, num_days, days_set, all_activities, pagination_token, activities,
          idx, items, include_today_in_avg, include_member_stats, members, chart,
          report, stream, nreq, lastReq, lastData, requested, malformed>>

fetchVars == <<days_set, all_activities, pagination_token, activities, idx>>
histVars == <<stream, nreq, lastReq, lastData, requested, malformed>>
argVars == <<num_days, include_today_in_avg, include_member_stats>>
mainVars == <<items, members, chart, report>>

(* ----------------------------- load_items ----------------------------- *)

\* IsWeekly with the filter never applied.
IsWeeklyNever(activity) == FALSE

\* line 86
IsWeekly(activity) == FILTER_OUT_WEEKLIES /\ activity.xpReward = WEEKLY_XP

\* StopRule stopping one day late.
StopRuleLate(n, days, date) == Cardinality(days) > n /\ date \notin days

\* StopRule stopping at any new date.
StopRuleAnyNew(n, days, date) == date \notin days

\* line 93
StopRule(n, days, date) == Cardinality(days) >= n /\ date \notin days

\* line 61
LoopCondition(days, n) == Cardinality(days) <= n

\* lines 63-66: the token the request URL carries
RequestToken(tok) == IF Truthy(tok) THEN tok ELSE NoToken

\* Raises with a missing token read as None (data.get).
RaisesLenient(data) ==
    IF ~data.hasItems THEN "KeyError"
    ELSE IF data.hasToken /\ data.items = <<>> THEN "IndexError"
    ELSE "none"

\* lines 75-81: what reading the response raises
Raises(data) ==
    IF ~data.hasItems THEN "KeyError"           \* line 75: data['items']
    ELSE IF ~data.hasToken THEN "KeyError"      \* line 78: data['paginationToken']
    ELSE IF data.items = <<>> THEN "IndexError" \* line 81: activities[-1]
    ELSE "none"

\* lines 61-81: one iteration's request, response and deserialization
FetchPage(data) ==
    /\ pc = "loop"
    /\ LoopCondition(days_set, num_days)
    /\ IF Raises(data) = "none"
       THEN /\ pc' = "records"
            /\ idx' = 1
            /\ UNCHANGED err
       ELSE /\ pc' = "fatal"
            /\ err' = Raises(data)
            /\ UNCHANGED idx
    /\ \* line 75 assigns activities unless it raises
       activities' = IF data.hasItems THEN data.items ELSE activities
    /\ \* line 78 assigns pagination_token unless it or line 75 raises
       pagination_token' = IF data.hasItems /\ data.hasToken
                           THEN data.paginationToken
                           ELSE pagination_token
    /\ UNCHANGED <<days_set, all_activities>>
    /\ UNCHANGED argVars
    /\ UNCHANGED mainVars

\* lines 84-97: one iteration of the for loop
ProcessRecord ==
    /\ pc = "records"
    /\ idx <= Len(activities)
    /\ LET activity == activities[idx]
           date == SplitDate(activity.recordedAt)
       IN \/ /\ IsWeekly(activity)
             /\ idx' = idx + 1
             /\ UNCHANGED <<pc, err, days_set, all_activities, items>>
          \/ /\ ~IsWeekly(activity)
             /\ StopRule(num_days, days_set, date)
             /\ pc' = "returned"
             /\ items' = all_activities
             /\ UNCHANGED <<idx, err, days_set, all_activities>>
          \/ /\ ~IsWeekly(activity)
             /\ ~StopRule(num_days, days_set, date)
             /\ Len(all_activities) < MaxKept
             /\ days_set' = days_set \cup {date}
             /\ all_activities' = Append(all_activities, activity)
             /\ idx' = idx + 1
             /\ UNCHANGED <<pc, err, items>>
          \/ \* line 97: all_activities grows without bound while pages keep
             \* bringing records of known dates; a process holds MaxKept
             \* records, and the append that exceeds it raises MemoryError
             \* (line 96 has added the date by then)
             /\ ~IsWeekly(activity)
             /\ ~StopRule(num_days, days_set, date)
             /\ Len(all_activities) >= MaxKept
             /\ days_set' = days_set \cup {date}
             /\ pc' = "fatal"
             /\ err' = "MemoryError"
             /\ UNCHANGED <<idx, all_activities, items>>
    /\ UNCHANGED <<pagination_token, activities, members, chart, report>>
    /\ UNCHANGED argVars
    /\ UNCHANGED histVars

\* lines 99-101: the page is exhausted, sleep, back to the while test
EndOfPage ==
    /\ pc = "records"
    /\ idx > Len(activities)
    /\ pc' = "loop"
    /\ UNCHANGED err
    /\ UNCHANGED argVars
    /\ UNCHANGED mainVars
    /\ UNCHANGED fetchVars
    /\ UNCHANGED histVars

\* lines 61, 103: the while condition is false
LoopExit ==
    /\ pc = "loop"
    /\ ~LoopCondition(days_set, num_days)
    /\ pc' = "returned"
    /\ items' = all_activities
    /\ UNCHANGED <<err, members, chart, report>>
    /\ UNCHANGED argVars
    /\ UNCHANGED fetchVars
    /\ UNCHANGED histVars

NoData == [hasItems |-> TRUE, hasToken |-> TRUE, paginationToken |-> First]
Shape(data) == [hasItems |-> data.hasItems, hasToken |-> data.hasToken,
                paginationToken |-> data.paginationToken]
Malformed(data) == ~data.hasItems \/ ~data.hasToken

\* A page request, with the request and the response recorded.
Fetch ==
    /\ nreq < MaxRequests
    /\ \E k \in 0..Min(MaxPageLen, MaxStream - Len(stream)) :
       \E p \in [1..k -> FetchRecords] :
       \E data \in ResponsesWith(p) :
          /\ FetchPage(data)
          /\ stream' = stream \o data.items
          /\ lastData' = Shape(data)
          /\ malformed' = (malformed \/ Malformed(data))
    /\ nreq' = nreq + 1
    /\ lastReq' = RequestToken(pagination_token)
    /\ requested' = requested \cup {RequestToken(pagination_token)}

\* A page request, nothing recorded.
FetchL ==
    /\ \E k \in 0..MaxPageLen :
       \E p \in [1..k -> FetchRecords] :
       \E data \in ResponsesWith(p) :
          FetchPage(data)
    /\ UNCHANGED histVars

(* ----------------------------- plot_items ----------------------------- *)

\* datetime.fromisoformat(recordedAt).date()
IsoDate(recordedAt) == recordedAt[1]

\* lines 132-135: the defaultdict(int), filled item by item
RECURSIVE XpByDate(_)
XpByDate(its) ==
    IF its = <<>> THEN [d \in {} |-> 0]
    ELSE LET prev == XpByDate(SubSeq(its, 1, Len(its) - 1))
             item == its[Len(its)]
             date == IsoDate(item.recordedAt)
         IN [d \in DOMAIN prev \cup {date} |->
                (IF d \in DOMAIN prev THEN prev[d] ELSE 0)
                + (IF d = date THEN item.xpReward ELSE 0)]

\* sorted(...) of a set of dates
RECURSIVE SortedDates(_)
SortedDates(S) ==
    IF S = {} THEN <<>>
    ELSE LET m == CHOOSE x \in S : \A y \in S : x <= y
         IN <<m>> \o SortedDates(S \ {m})

RECURSIVE SumSeq(_)
SumSeq(xs) == IF xs = <<>> THEN 0 ELSE xs[1] + SumSeq(Tail(xs))

\* SumsForAvg with the flag ignored.
SumsForAvgAll(xp_sums, include_today) == xp_sums

\* SumsForAvg leaving out the oldest bucket instead of the newest.
SumsForAvgDropFirst(xp_sums, include_today) ==
    IF include_today THEN xp_sums ELSE SubSeq(xp_sums, 2, Len(xp_sums))

\* lines 141-144: xp_sums, or xp_sums[:-1]
SumsForAvg(xp_sums, include_today) ==
    IF include_today THEN xp_sums ELSE SubSeq(xp_sums, 1, Len(xp_sums) - 1)

NoChart == [saved |-> FALSE, dates |-> <<>>, xp_sums |-> <<>>, avg |-> <<0, 1>>]

\* lines 131-160. The average sum/len is kept as the pair <<sum, len>>;
\* with len = 0 the division raises ZeroDivisionError before anything is drawn.
PlotResult(its, include_today) ==
    LET xp_by_date == XpByDate(its)
        dates == SortedDates(DOMAIN xp_by_date)
        xp_sums == [i \in 1..Len(dates) |-> xp_by_date[dates[i]]]
        xp_sums_for_avg == SumsForAvg(xp_sums, include_today)
    IN IF Len(xp_sums_for_avg) = 0
       THEN NoChart
       ELSE [saved |-> TRUE, dates |-> dates, xp_sums |-> xp_sums,
             avg |-> <<SumSeq(xp_sums_for_avg), Len(xp_sums_for_avg)>>]

\* line 36: plot_items(items, args.include_today_in_avg)
PlotItems ==
    /\ pc = "returned"
    /\ LET result == PlotResult(items, include_today_in_avg)
       IN \/ /\ ~result.saved
             /\ pc' = "fatal"
             /\ err' = "ZeroDivisionError"
             /\ UNCHANGED chart
          \/ /\ result.saved
             /\ chart' = result
             /\ pc' = "plotted"
             /\ UNCHANGED err
    /\ UNCHANGED <<items, members, report>>
    /\ UNCHANGED argVars
    /\ UNCHANGED fetchVars
    /\ UNCHANGED histVars

(* ---------------------------- load_members ---------------------------- *)

UserIds == {"A", "B"}
\* A nick is a string: the sequence of its characters' codes.
Nicks == {<<>>, <<1>>, <<1, 2>>, <<2>>}
Member(u, n) == [userId |-> u, nick |-> n]
Members == {Member(u, n) : u \in UserIds, n \in Nicks}

\* The rosters the remote source may hold: each user once.
Rosters ==
    {r \in SeqsUpTo(Members, MaxMembers) :
        \A i, j \in 1..Len(r) : r[i].userId = r[j].userId => i = j}

\* lines 38-39, 106-128: the roster request succeeds, or something on the way raises
LoadMembers ==
    /\ pc = "plotted"
    /\ include_member_stats
    /\ \/ /\ members' \in Rosters
          /\ pc' = "members"
          /\ UNCHANGED err
       \/ /\ pc' = "fatal"
          /\ err' = "RosterError"
          /\ UNCHANGED members
    /\ UNCHANGED <<items, chart, report>>
    /\ UNCHANGED argVars
    /\ UNCHANGED fetchVars
    /\ UNCHANGED histVars

\* line 38: no member report was asked for
Finish ==
    /\ pc = "plotted"
    /\ ~include_member_stats
    /\ pc' = "done"
    /\ UNCHANGED err
    /\ UNCHANGED mainVars
    /\ UNCHANGED argVars
    /\ UNCHANGED fetchVars
    /\ UNCHANGED histVars

(* ---------------------- write_inactivity_report ----------------------- *)

\* line 166: the dict comprehension, a later entry replacing an earlier one
RECURSIVE UserIdToNick(_)
UserIdToNick(mems) ==
    IF mems = <<>> THEN [u \in {} |-> <<>>]
    ELSE LET prev == UserIdToNick(SubSeq(mems, 1, Len(mems) - 1))
             m == mems[Len(mems)]
         IN [u \in DOMAIN prev \cup {m.userId} |->
                IF u = m.userId THEN m.nick ELSE prev[u]]

\* lines 170-173: the defaultdict(set), filled item by item
RECURSIVE ActiveByDate(_)
ActiveByDate(its) ==
    IF its = <<>> THEN [d \in {} |-> {}]
    ELSE LET prev == ActiveByDate(SubSeq(its, 1, Len(its) - 1))
             item == its[Len(its)]
             date == SplitDate(item.recordedAt)
         IN [d \in DOMAIN prev \cup {date} |->
                (IF d \in DOMAIN prev THEN prev[d] ELSE {})
                \cup (IF d = date THEN {item.userId} ELSE {})]

\* Python's order on strings: a is before b, or equal to it
LexLeq(a, b) ==
    \/ /\ Len(a) <= Len(b)
       /\ \A i \in 1..Len(a) : a[i] = b[i]
    \/ \E k \in 1..Min(Len(a), Len(b)) :
          /\ \A i \in 1..(k - 1) : a[i] = b[i]
          /\ a[k] < b[k]

\* sorted(...): one label placed into a sorted list
InsertSorted(x, xs) ==
    LET before == SelectSeq(xs, LAMBDA y : LexLeq(y, x))
        after == SelectSeq(xs, LAMBDA y : ~LexLeq(y, x))
    IN before \o <<x>> \o after

\* lines 181-184: sorted(user_id_to_nick.get(user_id, user_id) for user_id in ids)
RECURSIVE SortedNicks(_, _)
SortedNicks(ids, user_id_to_nick) ==
    IF ids = {} THEN <<>>
    ELSE LET user_id == CHOOSE u \in ids : TRUE
             label == IF user_id \in DOMAIN user_id_to_nick
                      THEN user_id_to_nick[user_id]
                      ELSE user_id
         IN InsertSorted(label, SortedNicks(ids \ {user_id}, user_id_to_nick))

\* InactiveUserIds with the day's active users not taken out.
InactiveUserIdsAll(all_user_ids, active) == all_user_ids

\* line 178
InactiveUserIds(all_user_ids, active) == all_user_ids \ active

\* lines 177-193: the blocks written, one per date: the date line, then the
\* labels, or the "(No inactive members)" line
ReportBlocks(its, mems) ==
    LET user_id_to_nick == UserIdToNick(mems)
        all_user_ids == DOMAIN user_id_to_nick
        active_by_date == ActiveByDate(its)
        dates == SortedDates(DOMAIN active_by_date)
    IN [i \in 1..Len(dates) |->
          LET inactive_nicks ==
                  SortedNicks(InactiveUserIds(all_user_ids, active_by_date[dates[i]]),
                              user_id_to_nick)
          IN [date |-> dates[i],
              nicks |-> inactive_nicks,
              none |-> inactive_nicks = <<>>]]

NoReport == [written |-> FALSE, blocks |-> <<>>]

\* line 40: write_inactivity_report(items, members)
WriteReport ==
    /\ pc = "members"
    /\ report' = [written |-> TRUE, blocks |-> ReportBlocks(items, members)]
    /\ pc' = "done"
    /\ UNCHANGED <<err, items, members, chart>>
    /\ UNCHANGED argVars
    /\ UNCHANGED fetchVars
    /\ UNCHANGED histVars

(* --------------------------- specifications --------------------------- *)

\* Nothing fetched, nothing recorded.
FetchIdle ==
    /\ days_set = {}
    /\ all_activities = <<>>
    /\ pagination_token = None
    /\ activities = <<>>
    /\ idx = 0
    /\ stream = <<>>
    /\ nreq = 0
    /\ lastReq = First
    /\ lastData = NoData
    /\ requested = {}
    /\ malformed = FALSE

InitRun ==
    /\ pc = "loop"
    /\ err = "none"
    /\ num_days \in NumDays
    /\ FetchIdle
    /\ items = <<>>
    /\ members = <<>>
    /\ chart = NoChart
    /\ report = NoReport

\* load_items, with what was requested and served recorded.
Init ==
    /\ InitRun
    /\ include_today_in_avg = FALSE
    /\ include_member_stats = FALSE

Next == Fetch \/ ProcessRecord \/ EndOfPage \/ LoopExit

Spec == Init /\ [][Next]_vars

\* main, from the command line to the end of the run.
MainInit ==
    /\ InitRun
    /\ include_today_in_avg \in BOOLEAN
    /\ include_member_stats \in BOOLEAN

MainNext ==
    \/ FetchL \/ ProcessRecord \/ EndOfPage \/ LoopExit
    \/ PlotItems \/ LoadMembers \/ Finish \/ WriteReport

MainSpec == MainInit /\ [][MainNext]_vars

\* The run does not pause for ever between two steps.
LiveSpec == MainInit /\ [][MainNext]_vars /\ WF_vars(MainNext)

\* plot_items on its own, on any list of records.
PlotRecords == {Rec(d, 0, x, "A") : d \in 1..MaxPlotDate, x \in {100, 200, 300}}

PlotInit ==
    /\ pc = "returned"
    /\ err = "none"
    /\ num_days = 0
    /\ FetchIdle
    /\ items \in SeqsUpTo(PlotRecords, MaxItems)
    /\ include_today_in_avg \in BOOLEAN
    /\ include_member_stats = FALSE
    /\ members = <<>>
    /\ chart = NoChart
    /\ report = NoReport

PlotNext == PlotItems

PlotSpec == PlotInit /\ [][PlotNext]_vars

\* write_inactivity_report on its own, on any list of records and any roster.
\* "G" is a user the roster does not know.
ReportRecords == {Rec(d, 0, 100, u) : d \in Dates, u \in UserIds \cup {"G"}}

ReportInit ==
    /\ pc = "members"
    /\ err = "none"
    /\ num_days = 0
    /\ FetchIdle
    /\ items \in SeqsUpTo(ReportRecords, MaxItems)
    /\ include_today_in_avg = FALSE
    /\ include_member_stats = TRUE
    /\ members \in Rosters
    /\ chart = NoChart
    /\ report = NoReport

ReportNext == WriteReport

ReportSpec == ReportInit /\ [][ReportNext]_vars

(* ------------------------------ load_items claims --------------------- *)

DatesOf(its) == {SplitDate(its[i].recordedAt) : i \in 1..Len(its)}
NonWeekly(its) == SelectSeq(its, LAMBDA r : r.xpReward # WEEKLY_XP)

\* C1: for num_days >= 0, while load_items runs and when it has returned,
\* days_set is the set of dates of the accumulated records and has at most
\* num_days elements; the returned list has at most num_days distinct dates.
C1_DaysSetBounded ==
    (pc \in {"loop", "records", "returned"} /\ num_days >= 0) =>
        /\ days_set = DatesOf(all_activities)
        /\ Cardinality(days_set) <= num_days
        /\ pc = "returned" =>
              /\ items = all_activities
              /\ Cardinality(DatesOf(items)) <= num_days

\* The stopping rule has fired on a full days_set, after two accepted records.
C1_Witness ==
    /\ pc = "returned"
    /\ num_days = 1
    /\ Cardinality(days_set) = 1
    /\ Len(items) = 2
    /\ idx <= Len(activities)

\* Position in stream of the record the for loop is at.
StreamPos == Len(stream) - Len(activities) + idx

\* The non-weekly record at stream[k] meets a days_set that is full and lacks its date.
IsTrigger(k) ==
    LET seen == DatesOf(NonWeekly(SubSeq(stream, 1, k - 1)))
    IN /\ stream[k].xpReward # WEEKLY_XP
       /\ Cardinality(seen) >= num_days
       /\ SplitDate(stream[k].recordedAt) \notin seen

\* C8: no record with xpReward 1000 is in the accumulated or the returned
\* list, days_set holds only dates of non-weekly records served, and the
\* record the stopping rule fired on is never a weekly one.
C8_WeekliesIgnored ==
    /\ \A i \in 1..Len(all_activities) : all_activities[i].xpReward # WEEKLY_XP
    /\ \A i \in 1..Len(items) : items[i].xpReward # WEEKLY_XP
    /\ days_set \subseteq DatesOf(NonWeekly(stream))
    /\ (pc = "returned" /\ idx \in 1..Len(activities)) =>
          activities[idx].xpReward # WEEKLY_XP

\* load_items has returned a record, having passed a weekly record of a date
\* that is not in days_set.
C8_Witness ==
    /\ pc = "returned"
    /\ Len(items) >= 1
    /\ \E k \in 1..Len(stream) :
          /\ k < StreamPos
          /\ stream[k].xpReward = WEEKLY_XP
          /\ SplitDate(stream[k].recordedAt) \notin days_set

\* C9: when load_items returns, the returned list is the non-weekly records
\* of the served stream before the first trigger; the trigger is the record
\* the for loop stopped at, in the last page served, so nothing after it was
\* taken and no page was requested after it.
C9_ReturnsPrefix ==
    pc = "returned" =>
        IF \E k \in 1..Len(stream) : IsTrigger(k)
        THEN LET first == CHOOSE k \in 1..Len(stream) :
                              IsTrigger(k) /\ \A j \in 1..(k - 1) : ~IsTrigger(j)
             IN /\ items = NonWeekly(SubSeq(stream, 1, first - 1))
                /\ first = StreamPos
                /\ idx \in 1..Len(activities)
        ELSE /\ items = <<>>
             /\ nreq = 0

\* The trigger came in the middle of the second page, after a record of that
\* page had been accepted.
C9_Witness ==
    /\ pc = "returned"
    /\ nreq = 2
    /\ idx = 2
    /\ Len(items) = 2
    /\ items[2] = activities[1]

\* C3: a response lacking 'items' or 'paginationToken' ends the fetch in a
\* KeyError at once: it is the last response, nothing is returned, and the
\* step that received it left all_activities and days_set as they were.
C3_MalformedIsFatal ==
    /\ [](malformed =>
            /\ pc = "fatal"
            /\ err = "KeyError"
            /\ items = <<>>
            /\ Malformed(lastData))
    /\ [][(nreq' # nreq /\ malformed') =>
            /\ all_activities' = all_activities
            /\ days_set' = days_set]_vars

\* The second page lacks the token and carries records; the first page's
\* record is held, and not returned.
C3_Witness ==
    /\ malformed
    /\ nreq = 2
    /\ lastData.hasItems
    /\ Len(activities) >= 1
    /\ Len(all_activities) = 1
    /\ pc = "fatal"

\* C10: the first request carries no token, every later request carries the
\* token of the response before it, and no request repeats an earlier one.
C10_TokenCarried ==
    [][(nreq' = nreq + 1) =>
        /\ lastReq' = (IF nreq = 0 THEN NoToken ELSE lastData.paginationToken)
        /\ lastReq' \notin requested]_vars

(* ------------------------------ main claims --------------------------- *)

\* C2: load_items eventually returns or fails, whatever the remote source
\* answers.
C2_FetchTerminates == <>(pc \notin {"loop", "records"})

PlotDatesOf(its) == {IsoDate(its[i].recordedAt) : i \in 1..Len(its)}

\* Sum of xpReward over the records of its dated in S.
RECURSIVE XpTotal(_, _)
XpTotal(its, S) ==
    IF its = <<>> THEN 0
    ELSE (IF IsoDate(Head(its).recordedAt) \in S THEN Head(its).xpReward ELSE 0)
         + XpTotal(Tail(its), S)

Newest(S) == CHOOSE d \in S : \A e \in S : e <= d

\* The dates whose buckets the average is taken over.
SelectedDates(its, include_today) ==
    IF include_today \/ PlotDatesOf(its) = {}
    THEN PlotDatesOf(its)
    ELSE PlotDatesOf(its) \ {Newest(PlotDatesOf(its))}

\* C5: once plot_items has run on records whose selected buckets are none
\* (no record at all, or one bucket with the newest left out), it has raised
\* an error and saved no chart.
C5_EmptySelectionFails ==
    (pc # "returned" /\ SelectedDates(items, include_today_in_avg) = {}) =>
        /\ pc = "fatal"
        /\ err = "ZeroDivisionError"
        /\ chart = NoChart

\* Two records of one day, the newest day left out of the average.
C5_Witness ==
    /\ pc = "fatal"
    /\ Len(items) = 2
    /\ Cardinality(PlotDatesOf(items)) = 1
    /\ ~include_today_in_avg

\* C7: on records of at least two dates plot_items saves a chart whose bars
\* are one per date, ascending, each the sum of its date's xpReward, and whose
\* average is the sum of the selected buckets over their number: all of them,
\* or all but the newest (buckets 100, 200, 300: 200 and 150).
C7_BucketsAndAverage ==
    (pc # "returned" /\ Cardinality(PlotDatesOf(items)) >= 2) =>
        LET sel == SelectedDates(items, include_today_in_avg)
        IN /\ pc = "plotted"
           /\ chart.saved
           /\ Len(chart.dates) = Cardinality(PlotDatesOf(items))
           /\ Len(chart.xp_sums) = Len(chart.dates)
           /\ \A i \in 1..Len(chart.dates) :
                 /\ chart.dates[i] \in PlotDatesOf(items)
                 /\ i > 1 => chart.dates[i - 1] < chart.dates[i]
                 /\ chart.xp_sums[i] = XpTotal(items, {chart.dates[i]})
           /\ chart.avg = <<XpTotal(items, sel), Cardinality(sel)>>
           /\ chart.xp_sums = <<100, 200, 300>> =>
                 chart.avg[1] = chart.avg[2] * (IF include_today_in_avg THEN 200 ELSE 150)

\* Buckets 100, 200, 300 with the newest left out: the average is 300 / 2.
C7_Witness ==
    /\ pc = "plotted"
    /\ ~include_today_in_avg
    /\ chart.xp_sums = <<100, 200, 300>>
    /\ chart.avg = <<300, 2>>

(* ----------------------- inactivity report claims --------------------- *)

ActiveOn(its, d) ==
    {its[i].userId : i \in {j \in 1..Len(its) : SplitDate(its[j].recordedAt) = d}}

\* The roster entries whose user has no record on date d.
InactiveEntries(its, mems, d) ==
    {k \in 1..Len(mems) : mems[k].userId \notin ActiveOn(its, d)}

Occurrences(xs, x) == Cardinality({i \in 1..Len(xs) : xs[i] = x})

\* C6: the report has one block per date of the records, in ascending order;
\* a block lists, in lexicographic order, one label for each roster member
\* without a record on the block's date and no other label, and has the
\* "(No inactive members)" line exactly when there is no such member.
C6_ReportBlocks ==
    pc = "done" =>
        LET blocks == report.blocks
        IN /\ report.written
           /\ Len(blocks) = Cardinality(DatesOf(items))
           /\ \A i \in 1..Len(blocks) :
                 LET b == blocks[i]
                     inactive == InactiveEntries(items, members, b.date)
                 IN /\ b.date \in DatesOf(items)
                    /\ i > 1 => blocks[i - 1].date < b.date
                    /\ Len(b.nicks) = Cardinality(inactive)
                    /\ \A n \in Nicks :
                          Occurrences(b.nicks, n)
                              = Cardinality({k \in inactive : members[k].nick = n})
                    /\ \A j \in 2..Len(b.nicks) :
                          /\ LexLeq(b.nicks[j - 1], b.nicks[j])
                          /\ b.nicks[j - 1] # b.nicks[j] => ~LexLeq(b.nicks[j], b.nicks[j - 1])
                    /\ b.none <=> (inactive = {})

\* Roster A "a", B "b"; on day 1 only A has a record, on day 2 both have.
C6_Witness ==
    /\ pc = "done"
    /\ members = <<Member("A", <<1>>), Member("B", <<2>>)>>
    /\ report.blocks = <<[date |-> 1, nicks |-> <<<<2>>>>, none |-> FALSE],
                         [date |-> 2, nicks |-> <<>>, none |-> TRUE]>>

====
